---------------------------- MODULE Spec2Model ----------------------------
(***************************************************************************)
(* The dataset flex volume driver of pkg/transfer/flex/main.go: Mount and   *)
(* Unmount of DatasetVolumes, run by the kubelet as one short-lived process *)
(* per operation, over a model of the files, directories and mounts the     *)
(* driver derives from the pod-visible mount path.                          *)
(*                                                                          *)
(* Every component function of the driver (writeDatasetOpts,                *)
(* provisionInput, ...) is one action; the os and exec calls inside it are  *)
(* operators over the "world" [fs, mtab], and each of these calls may fail  *)
(* for a reason of the environment (the set F of an action).                *)
(***************************************************************************)
EXTENDS Naturals, Integers, Sequences, FiniteSets, TLC

VARIABLES fs, mtab, proc, prev, ninv, nfault, cli

vars == <<fs, mtab, proc, prev, ninv, nfault, cli>>

--------------------------------------------------------------------------
(* Bounds of the model *)

\* invocations the kubelet makes on one mount path
MaxInvocations == 2

\* environment failures (a failing os call, utility or transfer) in one run
MaxFaults == 2

--------------------------------------------------------------------------
(* Paths.  A path of the volumes directory is the sequence of the          *)
(* dot-separated parts of its base name: <<"x">> is <dir>/x and            *)
(* <<"x", "input">> is <dir>/x.input.                                      *)

RelPathInput == "input"

RelPathFSInFile == "volume"

RelPathFSInFileMount == "mount"

RelPathOptions == "json"

RelPaths == {RelPathInput, RelPathFSInFile, RelPathFSInFileMount, RelPathOptions}

\* filepath.Join(mountPath, "..", filepath.Base(mountPath)+"."+name)
getPath(mountPath, name) == Append(mountPath, name)

\* the mount paths the kubelet hands to the driver
MountPaths == {<<"x">>}

\* a mount path in the same directory whose base name is that of the first
\* with a suffix
SuffixedMountPaths == {<<"x", "input">>}

AllMountPaths == MountPaths \cup SuffixedMountPaths

Paths == AllMountPaths \cup {getPath(p, n) : p \in AllMountPaths, n \in RelPaths}

--------------------------------------------------------------------------
(* Errors.  An error is the chain of its messages, outermost first; nil is *)
(* the empty chain.                                                        *)

Nil == <<>>

\* errors.New(msg)
New(msg) == <<msg>>

\* errors.Wrap(err, msg): nil stays nil
Wrap(err, msg) == IF err = Nil THEN Nil ELSE <<msg>> \o err

--------------------------------------------------------------------------
(* Mount options and dataset options *)

Keys == {"", "k"}

Buckets == {"", "b"}

MountOptions == [InputS3Key : Keys, InputS3Bucket : Buckets,
                 OutputS3Key : Keys, OutputS3Bucket : Buckets]

NoOpts == [InputS3Key |-> "", InputS3Bucket |-> "",
           OutputS3Key |-> "", OutputS3Bucket |-> ""]

\* a *transfer.Ref: <<>> is the nil pointer, <<r>> points to the Ref r
NilRef == <<>>

Ref(key, bucket) == <<[Key |-> key, Bucket |-> bucket]>>

\* &datasetOpts{}
EmptyDsopts == [Input |-> NilRef, Output |-> NilRef]

\* json.Encoder.Encode of a *transfer.Ref, as the tokens of the text
EncodeRef(r) ==
    IF r = NilRef THEN <<"null">>
    ELSE <<"{", "Key", r[1].Key, "Bucket", r[1].Bucket, "}">>

\* json.Encoder.Encode(dsopts): both fields of the struct are written
EncodeDsoptsInputOnly(d) ==
    <<"{", "Input">> \o EncodeRef(d.Input) \o <<"Output">> \o EncodeRef(NilRef) \o <<"}">>

EncodeDsopts(d) ==
    <<"{", "Input">> \o EncodeRef(d.Input) \o <<"Output">> \o EncodeRef(d.Output) \o <<"}">>

\* Decoding a *transfer.Ref at position i of the tokens t:
\* [ok, ref, next].  null gives the nil pointer, an object a Ref.
DecodeRef(t, i) ==
    IF i > Len(t) THEN [ok |-> FALSE, ref |-> NilRef, next |-> i]
    ELSE IF t[i] = "null" THEN [ok |-> TRUE, ref |-> NilRef, next |-> i + 1]
    ELSE IF /\ i + 5 <= Len(t)
            /\ t[i] = "{" /\ t[i + 1] = "Key" /\ t[i + 3] = "Bucket" /\ t[i + 5] = "}"
         THEN [ok |-> TRUE, ref |-> Ref(t[i + 2], t[i + 4]), next |-> i + 6]
    ELSE [ok |-> FALSE, ref |-> NilRef, next |-> i]

\* json.Decoder.Decode(dsopts) of the tokens t: [ok, dsopts]
DecodeDsopts(t) ==
    IF Len(t) < 2 \/ t[1] # "{" \/ t[2] # "Input"
    THEN [ok |-> FALSE, dsopts |-> EmptyDsopts]
    ELSE LET a == DecodeRef(t, 3)
         IN  IF ~a.ok \/ a.next > Len(t) \/ t[a.next] # "Output"
             THEN [ok |-> FALSE, dsopts |-> EmptyDsopts]
             ELSE LET b == DecodeRef(t, a.next + 1)
                  IN  IF b.ok /\ b.next = Len(t) /\ t[b.next] = "}"
                      THEN [ok |-> TRUE, dsopts |-> [Input |-> a.ref, Output |-> b.ref]]
                      ELSE [ok |-> FALSE, dsopts |-> EmptyDsopts]

--------------------------------------------------------------------------
(* The world: files and directories (fs) and the mount table (mtab).       *)
(* A node is absent, a file with its content (tokens), or a directory with  *)
(* the names in it; a path's mounts are stacked, the last one on top.       *)

Absent == [kind |-> "none", data |-> <<>>, kids |-> {}]

File(data) == [kind |-> "file", data |-> data, kids |-> {}]

Dir(kids) == [kind |-> "dir", data |-> <<>>, kids |-> kids]

\* content of a file that was truncated to its size and not formatted
RawImage == <<"zeroes">>

\* content of a file formatted by mkfs -t ext4
Ext4Image == <<"ext4">>

LoopMount(dev) == [type |-> "loop", dev |-> dev, lower |-> <<>>, kids |-> {}]

OverlayMount(upperOn, lower) ==
    [type |-> "overlay", dev |-> upperOn, lower |-> lower, kids |-> {}]

World(f, m) == [fs |-> f, mtab |-> m]

SetNode(w, n, node) == [w EXCEPT !.fs[n] = node]

IsMounted(w, n) == Len(w.mtab[n]) > 0

Top(w, n) == w.mtab[n][Len(w.mtab[n])]

\* the names seen in directory n: those of the file system mounted on it, if any
VisibleKids(w, n) == IF IsMounted(w, n) THEN Top(w, n).kids ELSE w.fs[n].kids

SetVisibleKids(w, n, ks) ==
    IF IsMounted(w, n)
    THEN [w EXCEPT !.mtab[n][Len(w.mtab[n])].kids = ks]
    ELSE [w EXCEPT !.fs[n].kids = ks]

\* a mount on n is in use while an overlay has its upper and work directory in it
Busy(w, n) ==
    \E q \in Paths : \E i \in 1..Len(w.mtab[q]) :
        w.mtab[q][i].type = "overlay" /\ w.mtab[q][i].dev = n

\* The result of an os call or utility: the world after it and whether it succeeded.
Res(w, ok) == [w |-> w, ok |-> ok]

\* os.Create(n): creates or truncates the file; fails on a directory
OsCreate(w, n, fault) ==
    IF fault \/ w.fs[n].kind = "dir" THEN Res(w, FALSE)
    ELSE Res(SetNode(w, n, File(<<>>)), TRUE)

\* os.Open(n), for reading
OsOpen(w, n, fault) == Res(w, ~fault /\ w.fs[n].kind # "none")

\* os.Mkdir(n): fails when n exists
OsMkdir(w, n, fault) ==
    IF fault \/ w.fs[n].kind # "none" THEN Res(w, FALSE)
    ELSE Res(SetNode(w, n, Dir({})), TRUE)

\* os.MkdirAll(n): succeeds when n is a directory already
OsMkdirAll(w, n, fault) ==
    IF fault \/ w.fs[n].kind = "file" THEN Res(w, FALSE)
    ELSE IF w.fs[n].kind = "dir" THEN Res(w, TRUE)
    ELSE Res(SetNode(w, n, Dir({})), TRUE)

\* os.MkdirAll(filepath.Join(n, kid)): creates n as well when it is missing
OsMkdirAllIn(w, n, kid, fault) ==
    LET r == OsMkdirAll(w, n, fault)
    IN  IF ~r.ok THEN r
        ELSE Res(SetVisibleKids(r.w, n, VisibleKids(r.w, n) \cup {kid}), TRUE)

\* os.Remove(n): a file or an empty directory; fails when n does not exist
OsRemove(w, n, fault) ==
    IF \/ fault
       \/ w.fs[n].kind = "none"
       \/ w.fs[n].kind = "dir" /\ (IsMounted(w, n) \/ w.fs[n].kids # {})
    THEN Res(w, FALSE)
    ELSE Res(SetNode(w, n, Absent), TRUE)

\* os.RemoveAll(n): nil when n does not exist; a mount point is emptied and stays
OsRemoveAll(w, n, fault) ==
    IF fault THEN Res(w, FALSE)
    ELSE IF w.fs[n].kind = "dir" /\ IsMounted(w, n)
         THEN Res(SetVisibleKids(w, n, {}), FALSE)
    ELSE Res(SetNode(w, n, Absent), TRUE)

\* os.RemoveAll(filepath.Join(n, kid))
OsRemoveAllIn(w, n, kid, fault) ==
    IF fault THEN Res(w, FALSE)
    ELSE IF w.fs[n].kind # "dir" THEN Res(w, TRUE)
    ELSE Res(SetVisibleKids(w, n, VisibleKids(w, n) \ {kid}), TRUE)

\* f.Truncate(size) on the file just created
Truncate(w, n, fault) ==
    IF fault \/ w.fs[n].kind # "file" THEN Res(w, FALSE)
    ELSE Res(SetNode(w, n, File(RawImage)), TRUE)

\* exec mkfs -t ext4 n
Mkfs(w, n, fault) ==
    IF fault \/ w.fs[n].kind # "file" \/ w.fs[n].data # RawImage THEN Res(w, FALSE)
    ELSE Res(SetNode(w, n, File(Ext4Image)), TRUE)

\* exec mount volumePath mountPath
MountCmd(w, volumePath, mountPath, fault) ==
    IF \/ fault
       \/ w.fs[volumePath] # File(Ext4Image)
       \/ w.fs[mountPath].kind # "dir"
    THEN Res(w, FALSE)
    ELSE Res([w EXCEPT !.mtab[mountPath] = Append(@, LoopMount(volumePath))], TRUE)

\* exec mount -t overlay overlay -o lowerdir=,upperdir=,workdir= mountPath
MountOverlayCmd(w, upperOn, lowerDir, mountPath, fault) ==
    IF \/ fault
       \/ w.fs[mountPath].kind # "dir"
       \/ w.fs[lowerDir].kind # "dir"
       \/ w.fs[upperOn].kind # "dir"
       \/ ~({"upper", "work"} \subseteq VisibleKids(w, upperOn))
    THEN Res(w, FALSE)
    ELSE Res([w EXCEPT !.mtab[mountPath] = Append(@, OverlayMount(upperOn, lowerDir))], TRUE)

\* exec umount mountPath: fails when nothing is mounted there or the mount is in use
UmountCmd(w, mountPath, fault) ==
    IF fault \/ ~IsMounted(w, mountPath) \/ Busy(w, mountPath) THEN Res(w, FALSE)
    ELSE Res([w EXCEPT !.mtab[mountPath] = SubSeq(@, 1, Len(@) - 1)], TRUE)

\* trans.Download(ctx, ref, path): the object's content lands in the directory
Download(w, ref, path, fault) ==
    IF fault \/ w.fs[path].kind # "dir" THEN Res(w, FALSE)
    ELSE Res(SetVisibleKids(w, path, VisibleKids(w, path) \cup {"data"}), TRUE)

\* trans.Upload(ctx, ref, path): reads the directory
Upload(w, ref, path, fault) == Res(w, ~fault /\ w.fs[path].kind = "dir")

--------------------------------------------------------------------------
(* The component functions of DatasetVolumes.  Each takes the world and    *)
(* the set F of its calls that fail for a reason of the environment, and   *)
(* gives the world after it, the error it returns and the calls it made.   *)

CRes(w, err, calls) == [w |-> w, err |-> err, calls |-> calls]

\* the leaf error of a failed os call, utility or transfer
Leaf(call) == New(call)

\* writeDatasetOpts, up to the bucket checks: a side is configured by its
\* key; a variant in which it is configured by its bucket
ValidateOptsByBucket(opts) ==
    LET input  == IF opts.InputS3Bucket # ""
                  THEN Ref(opts.InputS3Key, opts.InputS3Bucket) ELSE NilRef
        output == IF opts.OutputS3Bucket # ""
                  THEN Ref(opts.OutputS3Key, opts.OutputS3Bucket) ELSE NilRef
    IN  IF input # NilRef /\ input[1].Key = ""
        THEN [dsopts |-> EmptyDsopts, err |-> New("input key configured without a bucket")]
        ELSE IF output # NilRef /\ output[1].Key = ""
        THEN [dsopts |-> EmptyDsopts, err |-> New("output key configured without a bucket")]
        ELSE [dsopts |-> [Input |-> input, Output |-> output], err |-> Nil]

\* writeDatasetOpts, up to the bucket checks: the dsopts built and the error
ValidateOpts(opts) ==
    LET input  == IF opts.InputS3Key # ""
                  THEN Ref(opts.InputS3Key, opts.InputS3Bucket) ELSE NilRef
        output == IF opts.OutputS3Key # ""
                  THEN Ref(opts.OutputS3Key, opts.OutputS3Bucket) ELSE NilRef
    IN  IF input # NilRef /\ input[1].Bucket = ""
        THEN [dsopts |-> EmptyDsopts, err |-> New("input key configured without a bucket")]
        ELSE IF output # NilRef /\ output[1].Bucket = ""
        THEN [dsopts |-> EmptyDsopts, err |-> New("output key configured without a bucket")]
        ELSE [dsopts |-> [Input |-> input, Output |-> output], err |-> Nil]

\* writeDatasetOpts(path, opts): [w, err, calls, dsopts]
writeDatasetOpts(w, path, opts, F) ==
    LET v == ValidateOpts(opts)
        c == OsCreate(w, path, "os.Create" \in F)
        none == [dsopts |-> EmptyDsopts]
    IN  IF v.err # Nil THEN CRes(w, v.err, <<>>) @@ none
        ELSE IF ~c.ok
        THEN CRes(c.w, Wrap(Leaf("os.Create"), "failed to create metadata file"),
                  <<"os.Create">>) @@ none
        ELSE IF "Encode" \in F
        THEN CRes(c.w, Wrap(Leaf("Encode"), "failed to encode metadata"),
                  <<"os.Create", "Encode">>) @@ none
        ELSE CRes(SetNode(c.w, path, File(EncodeDsopts(v.dsopts))), Nil,
                  <<"os.Create", "Encode">>) @@ [dsopts |-> v.dsopts]

\* readDatasetOpts(path): [w, err, calls, dsopts]
readDatasetOpts(w, path, F) ==
    LET o == OsOpen(w, path, "os.Open" \in F)
        d == DecodeDsopts(w.fs[path].data)
        none == [dsopts |-> EmptyDsopts]
    IN  IF ~o.ok
        THEN CRes(w, Wrap(Leaf("os.Open"), "failed to open metadata file"),
                  <<"os.Open">>) @@ none
        ELSE IF "Decode" \in F \/ w.fs[path].kind # "file" \/ ~d.ok
        THEN CRes(w, Wrap(Leaf("Decode"), "failed to decode metadata"),
                  <<"os.Open", "Decode">>) @@ none
        ELSE CRes(w, Nil, <<"os.Open", "Decode">>) @@ [dsopts |-> d.dsopts]

\* deleteDatasetOpts(path)
deleteDatasetOpts(w, path, F) ==
    LET r == OsRemove(w, path, "os.Remove" \in F)
    IN  CRes(r.w,
             Wrap(IF r.ok THEN Nil ELSE Leaf("os.Remove"), "failed to delete metadata file"),
             <<"os.Remove">>)

\* createFSInFile(path, FileSystemExt4, WriteSpace)
createFSInFile(w, path, F) ==
    LET c == OsCreate(w, path, "os.Create" \in F)
        t == Truncate(c.w, path, "Truncate" \in F)
        m == Mkfs(t.w, path, "mkfs" \in F)
    IN  IF ~c.ok
        THEN CRes(c.w, Wrap(Leaf("os.Create"), "failed to create file system file"),
                  <<"os.Create">>)
        ELSE IF ~t.ok
        THEN CRes(t.w, Wrap(Leaf("Truncate"), "failed to allocate file system size"),
                  <<"os.Create", "Truncate">>)
        ELSE IF ~m.ok
        THEN CRes(m.w, Wrap(Leaf("mkfs"), "failed to execute mkfs command"),
                  <<"os.Create", "Truncate", "mkfs">>)
        ELSE CRes(m.w, Nil, <<"os.Create", "Truncate", "mkfs">>)

\* destroyFSInFile(path)
destroyFSInFile(w, path, F) ==
    LET r == OsRemoveAll(w, path, "os.RemoveAll" \in F)
    IN  CRes(r.w,
             IF r.ok THEN Nil
             ELSE Wrap(Leaf("os.RemoveAll"), "failed to delete fs-in-file file"),
             <<"os.RemoveAll">>)

\* provisionInput(path, input): the input is downloaded only when there is
\* one; a variant that goes on to the transfer without looking at input
provisionInputAlwaysDownload(w, path, input, F) ==
    LET m == OsMkdirAll(w, path, "os.MkdirAll" \in F)
        d == Download(m.w, input, path, "Download" \in F)
    IN  IF ~m.ok
        THEN CRes(m.w, Wrap(Leaf("os.MkdirAll"), "failed to create input directory"),
                  <<"os.MkdirAll">>)
        ELSE IF "NewS3" \in F
        THEN CRes(m.w, Wrap(Leaf("NewS3"), "failed to set up S3 transfer"),
                  <<"os.MkdirAll", "NewS3">>)
        ELSE IF ~d.ok
        THEN CRes(d.w, Wrap(Leaf("Download"), "failed to download data from S3"),
                  <<"os.MkdirAll", "NewS3", "Download">>)
        ELSE CRes(d.w, Nil, <<"os.MkdirAll", "NewS3", "Download">>)

provisionInput(w, path, input, F) ==
    LET m == OsMkdirAll(w, path, "os.MkdirAll" \in F)
        d == Download(m.w, input, path, "Download" \in F)
    IN  IF ~m.ok
        THEN CRes(m.w, Wrap(Leaf("os.MkdirAll"), "failed to create input directory"),
                  <<"os.MkdirAll">>)
        ELSE IF input = NilRef THEN CRes(m.w, Nil, <<"os.MkdirAll">>)
        ELSE IF "NewS3" \in F
        THEN CRes(m.w, Wrap(Leaf("NewS3"), "failed to set up S3 transfer"),
                  <<"os.MkdirAll", "NewS3">>)
        ELSE IF ~d.ok
        THEN CRes(d.w, Wrap(Leaf("Download"), "failed to download data from S3"),
                  <<"os.MkdirAll", "NewS3", "Download">>)
        ELSE CRes(d.w, Nil, <<"os.MkdirAll", "NewS3", "Download">>)

\* destroyInput(path)
destroyInput(w, path, F) ==
    LET r == OsRemoveAll(w, path, "os.RemoveAll" \in F)
    IN  CRes(r.w,
             IF r.ok THEN Nil
             ELSE Wrap(Leaf("os.RemoveAll"), "failed to destroy input directory"),
             <<"os.RemoveAll">>)

\* mountFSInFile(volumePath, mountPath)
mountFSInFile(w, volumePath, mountPath, F) ==
    LET d == OsMkdir(w, mountPath, "os.Mkdir" \in F)
        m == MountCmd(d.w, volumePath, mountPath, "mount" \in F)
    IN  IF ~d.ok
        THEN CRes(d.w, Wrap(Leaf("os.Mkdir"), "failed to create mount directory"),
                  <<"os.Mkdir">>)
        ELSE IF ~m.ok
        THEN CRes(m.w, Wrap(Leaf("mount"), "failed to execute mount command"),
                  <<"os.Mkdir", "mount">>)
        ELSE CRes(m.w, Nil, <<"os.Mkdir", "mount">>)

\* unmountFSInFile(mountPath): the mount path is deleted only after a
\* successful umount
unmountFSInFileKeepDir(w, mountPath, F) ==
    LET u == UmountCmd(w, mountPath, "umount" \in F)
    IN  IF ~u.ok
        THEN CRes(u.w, Wrap(Leaf("umount"), "failed to unmount fs-in-file"), <<"umount">>)
        ELSE CRes(u.w, Nil, <<"umount">>)

unmountFSInFile(w, mountPath, F) ==
    LET u == UmountCmd(w, mountPath, "umount" \in F)
        r == OsRemoveAll(u.w, mountPath, "os.RemoveAll" \in F)
    IN  IF ~u.ok
        THEN CRes(u.w, Wrap(Leaf("umount"), "failed to unmount fs-in-file"), <<"umount">>)
        ELSE IF ~r.ok
        THEN CRes(r.w, Wrap(Leaf("os.RemoveAll"), "failed to delete fs-in-file mount point"),
                  <<"umount", "os.RemoveAll">>)
        ELSE CRes(r.w, Nil, <<"umount", "os.RemoveAll">>)

\* mountOverlayFS(upperDir, workDir, lowerDir, mountPath), upperDir and
\* workDir being "upper" and "work" in the directory upperOn.  Both
\* directories are made before either error is looked at.
mountOverlayFS(w, upperOn, lowerDir, mountPath, F) ==
    LET a == OsMkdirAllIn(w, upperOn, "upper", "MkdirAll.upper" \in F)
        b == OsMkdirAllIn(a.w, upperOn, "work", "MkdirAll.work" \in F)
        m == MountOverlayCmd(b.w, upperOn, lowerDir, mountPath, "mount" \in F)
        mk == <<"MkdirAll.upper", "MkdirAll.work">>
    IN  IF ~a.ok
        THEN CRes(b.w, Wrap(Leaf("MkdirAll.upper"), "failed to create directories"), mk)
        ELSE IF ~b.ok
        THEN CRes(b.w, Wrap(Leaf("MkdirAll.work"), "failed to create directories"), mk)
        ELSE IF ~m.ok
        THEN CRes(m.w, Wrap(Leaf("mount"), "failed to execute mount command"),
                  Append(mk, "mount"))
        ELSE CRes(m.w, Nil, Append(mk, "mount"))

\* unmountOverlayFS deletes upperDir and workDir and leaves mountPath alone;
\* a variant that deletes the mount path too, as unmountFSInFile does
unmountOverlayFSRemoveTarget(w, upperOn, mountPath, F) ==
    LET u == UmountCmd(w, mountPath, "umount" \in F)
        a == OsRemoveAllIn(u.w, upperOn, "upper", "RemoveAll.upper" \in F)
        b == OsRemoveAllIn(a.w, upperOn, "work", "RemoveAll.work" \in F)
        c == OsRemoveAll(b.w, mountPath, FALSE)
        all == <<"umount", "RemoveAll.upper", "RemoveAll.work">>
    IN  IF ~u.ok
        THEN CRes(u.w, Wrap(Leaf("umount"), "failed to unmount overlayfs"), <<"umount">>)
        ELSE IF ~a.ok
        THEN CRes(c.w, Wrap(Leaf("RemoveAll.upper"), "failed to delete directories"), all)
        ELSE IF ~b.ok
        THEN CRes(c.w, Wrap(Leaf("RemoveAll.work"), "failed to delete directories"), all)
        ELSE CRes(c.w, Nil, all)

\* unmountOverlayFS(upperDir, workDir, mountPath): the directories are
\* deleted only after a successful umount, and both of them are
unmountOverlayFS(w, upperOn, mountPath, F) ==
    LET u == UmountCmd(w, mountPath, "umount" \in F)
        a == OsRemoveAllIn(u.w, upperOn, "upper", "RemoveAll.upper" \in F)
        b == OsRemoveAllIn(a.w, upperOn, "work", "RemoveAll.work" \in F)
        all == <<"umount", "RemoveAll.upper", "RemoveAll.work">>
    IN  IF ~u.ok
        THEN CRes(u.w, Wrap(Leaf("umount"), "failed to unmount overlayfs"), <<"umount">>)
        ELSE IF ~a.ok
        THEN CRes(b.w, Wrap(Leaf("RemoveAll.upper"), "failed to delete directories"), all)
        ELSE IF ~b.ok
        THEN CRes(b.w, Wrap(Leaf("RemoveAll.work"), "failed to delete directories"), all)
        ELSE CRes(b.w, Nil, all)

\* handleOutput(path, output): nothing is uploaded without an output
\* reference; a variant that goes on to the transfer without looking at it
handleOutputAlwaysUpload(w, path, output, F) ==
    LET u == Upload(w, output, path, "Upload" \in F)
    IN  IF "NewS3" \in F
        THEN CRes(w, Wrap(Leaf("NewS3"), "failed to set up S3 transfer"), <<"NewS3">>)
        ELSE IF ~u.ok
        THEN CRes(u.w, Wrap(Leaf("Upload"), "failed to upload data to S3"),
                  <<"NewS3", "Upload">>)
        ELSE CRes(u.w, Nil, <<"NewS3", "Upload">>)

handleOutput(w, path, output, F) ==
    LET u == Upload(w, output, path, "Upload" \in F)
    IN  IF output = NilRef THEN CRes(w, Nil, <<>>)
        ELSE IF "NewS3" \in F
        THEN CRes(w, Wrap(Leaf("NewS3"), "failed to set up S3 transfer"), <<"NewS3">>)
        ELSE IF ~u.ok
        THEN CRes(u.w, Wrap(Leaf("Upload"), "failed to upload data to S3"),
                  <<"NewS3", "Upload">>)
        ELSE CRes(u.w, Nil, <<"NewS3", "Upload">>)

Range(s) == {s[i] : i \in 1..Len(s)}

--------------------------------------------------------------------------
(* The driver process of one mount path: the kubelet runs one process per   *)
(* operation and never two at once on the same mount path.                  *)

\* the value a driver operation returns: nil, one error, or a multierror
RetNil == [multi |-> FALSE, errs |-> <<>>]

RetErr(err) == [multi |-> FALSE, errs |-> <<err>>]

RetMulti(result) == [multi |-> result # <<>>, errs |-> result]

NoWorld == World([n \in Paths |-> Absent], [n \in Paths |-> <<>>])

NoPrev ==
    [op |-> "none", dsopts |-> EmptyDsopts, ok |-> FALSE, faulty |-> FALSE, clean |-> FALSE]

IdleProc ==
    [pc |-> "idle", op |-> "none", opts |-> NoOpts, dsopts |-> EmptyDsopts,
     err |-> Nil, result |-> <<>>, defers |-> <<>>, steps |-> <<>>, calls |-> <<>>,
     faulty |-> FALSE, pre |-> NoWorld, ret |-> RetNil, stdout |-> <<>>, fatal |-> FALSE]

\* a run of main that calls neither Mount nor Unmount: os.Args, what it
\* wrote to its standard output, whether it ended in log.Fatalf, and the
\* driver function it called
IdleCli ==
    [pc |-> "idle", osArgs |-> <<>>, stdout |-> <<>>, fatal |-> FALSE, driver |-> "none"]

\* the five forward steps of Mount and the rollback deferred after each
MountSteps ==
    <<"writeDatasetOpts", "provisionInput", "createFSInFile", "mountFSInFile",
      "mountOverlayFS">>

Rollbacks ==
    <<"deleteDatasetOpts", "destroyInput", "destroyFSInFile", "unmountFSInFile",
      "unmountOverlayFS">>

\* the message Mount wraps the error of each forward step with
MountPhase ==
    <<"failed to write volume database", "failed to provision input",
      "failed to create file system in a file", "failed to mount file system in a file",
      "failed to mount overlayfs">>

\* the seven steps of Unmount and the message it wraps the error of each with
UnmountSteps ==
    <<"readDatasetOpts", "handleOutput", "unmountOverlayFS", "unmountFSInFile",
      "destroyFSInFile", "destroyInput", "deleteDatasetOpts">>

UnmountPhase ==
    <<"failed to read volume database", "failed to upload output",
      "failed to unmount overlayfs", "failed to unmount file system in a file",
      "failed to delete file system in a file", "failed to delete input data",
      "failed to delete dataset">>

\* where Mount goes on after forward step k succeeded: the next step, and
\* after the last one the return, which runs the deferred functions
MountFlow == <<"m2", "m3", "m4", "m5", "mdefer">>

\* where Unmount goes on after step k
UnmountFlowOverlayFirst == <<"u3", "u4", "u2", "u5", "u6", "u7", "done">>

UnmountFlow == <<"u2", "u3", "u4", "u5", "u6", "u7", "done">>

\* the derived resources of a mount path
Derived(p) == {getPath(p, n) : n \in RelPaths}

\* no derived resource of p exists and nothing is mounted on p or on them
Clean(w, p) ==
    /\ \A n \in Derived(p) : w.fs[n] = Absent /\ w.mtab[n] = <<>>
    /\ w.mtab[p] = <<>>

TypeOK ==
    /\ ninv \in 0..MaxInvocations
    /\ nfault \in 0..MaxFaults
    /\ \A p \in MountPaths : proc[p].opts \in MountOptions

Init ==
    /\ fs = [n \in Paths |-> IF n \in MountPaths THEN Dir({}) ELSE Absent]
    /\ mtab = [n \in Paths |-> <<>>]
    /\ proc = [p \in AllMountPaths |-> IdleProc]
    /\ prev = [p \in AllMountPaths |-> NoPrev]
    /\ ninv = 0
    /\ nfault = 0
    /\ cli = IdleCli

\* the environment failures F injected into a call r of a component
\* function: each of them hit a call that was made
Injected(r, F) ==
    /\ F \subseteq Range(r.calls)
    /\ nfault + Cardinality(F) <= MaxFaults

\* the process record after a component function fn returned r
Logged(pr, fn, r, F) ==
    [pr EXCEPT !.steps = Append(@, [fn |-> fn, err |-> r.err]),
               !.calls = @ \o r.calls,
               !.faulty = @ \/ F # {}]

SetWorld(w) == fs' = w.fs /\ mtab' = w.mtab

\* main, case OperationMount: volp.Mount(os.Args[2], opts)
InvokeMount(p, opts) ==
    /\ proc[p].pc = "idle"
    /\ cli.pc = "idle"
    /\ ninv < MaxInvocations
    /\ ninv' = ninv + 1
    /\ proc' = [proc EXCEPT ![p] = [IdleProc EXCEPT !.pc = "m1", !.op = "mount",
                                     !.opts = opts, !.pre = World(fs, mtab)]]
    /\ UNCHANGED <<fs, mtab, prev, nfault, cli>>

\* main, case OperationUnmount: volp.Unmount(os.Args[2])
InvokeUnmount(p) ==
    /\ proc[p].pc = "idle"
    /\ cli.pc = "idle"
    /\ ninv < MaxInvocations
    /\ ninv' = ninv + 1
    /\ proc' = [proc EXCEPT ![p] = [IdleProc EXCEPT !.pc = "u1", !.op = "unmount",
                                     !.pre = World(fs, mtab)]]
    /\ UNCHANGED <<fs, mtab, prev, nfault, cli>>

\* defer func() { if err != nil { rollback of step k } }(), which Mount
\* executes right after step k returned err and before it looks at err
DeferOnSuccess(defers, k, err) == IF err = Nil THEN Append(defers, k) ELSE defers

Defer(defers, k, err) == Append(defers, k)

\* A forward step of Mount returned r: the rollback of the step is deferred,
\* then err is looked at; a non-nil err is wrapped and returned, which runs
\* the deferred functions.
MountStepDone(p, k, r, F, dsopts) ==
    /\ Injected(r, F)
    /\ nfault' = nfault + Cardinality(F)
    /\ SetWorld(r.w)
    /\ proc' = [proc EXCEPT ![p] =
           [Logged(proc[p], MountSteps[k], r, F) EXCEPT
               !.defers = Defer(@, k, r.err),
               !.dsopts = dsopts,
               !.err = Wrap(r.err, MountPhase[k]),
               !.pc = IF r.err # Nil THEN "mdefer" ELSE MountFlow[k]]]
    /\ UNCHANGED <<prev, ninv, cli>>

\* Mount: dsopts, err := volp.writeDatasetOpts(volp.getPath(kubeMountPath, RelPathOptions), opts)
MountWriteOpts(p) ==
    /\ proc[p].pc = "m1"
    /\ \E F \in SUBSET {"os.Create", "Encode"} :
          LET r == writeDatasetOpts(World(fs, mtab), getPath(p, RelPathOptions),
                                    proc[p].opts, F)
          IN  MountStepDone(p, 1, r, F, r.dsopts)

\* Mount: err = volp.provisionInput(volp.getPath(kubeMountPath, RelPathInput), dsopts.Input)
MountProvisionInput(p) ==
    /\ proc[p].pc = "m2"
    /\ \E F \in SUBSET {"os.MkdirAll", "NewS3", "Download"} :
          LET r == provisionInput(World(fs, mtab), getPath(p, RelPathInput),
                                  proc[p].dsopts.Input, F)
          IN  MountStepDone(p, 2, r, F, proc[p].dsopts)

\* Mount: err = volp.createFSInFile(volp.getPath(kubeMountPath, RelPathFSInFile), ...)
MountCreateFS(p) ==
    /\ proc[p].pc = "m3"
    /\ \E F \in SUBSET {"os.Create", "Truncate", "mkfs"} :
          LET r == createFSInFile(World(fs, mtab), getPath(p, RelPathFSInFile), F)
          IN  MountStepDone(p, 3, r, F, proc[p].dsopts)

\* Mount: err = volp.mountFSInFile(volume, mount)
MountMountFS(p) ==
    /\ proc[p].pc = "m4"
    /\ \E F \in SUBSET {"os.Mkdir", "mount"} :
          LET r == mountFSInFile(World(fs, mtab), getPath(p, RelPathFSInFile),
                                 getPath(p, RelPathFSInFileMount), F)
          IN  MountStepDone(p, 4, r, F, proc[p].dsopts)

\* Mount: err = volp.mountOverlayFS(mount/upper, mount/work, input, kubeMountPath)
MountOverlay(p) ==
    /\ proc[p].pc = "m5"
    /\ \E F \in SUBSET {"MkdirAll.upper", "MkdirAll.work", "mount"} :
          LET r == mountOverlayFS(World(fs, mtab), getPath(p, RelPathFSInFileMount),
                                  getPath(p, RelPathInput), p, F)
          IN  MountStepDone(p, 5, r, F, proc[p].dsopts)

\* the rollback function deferred after forward step k of Mount
Rollback(w, p, k, F) ==
    CASE k = 1 -> deleteDatasetOpts(w, getPath(p, RelPathOptions), F)
      [] k = 2 -> destroyInput(w, getPath(p, RelPathInput), F)
      [] k = 3 -> destroyFSInFile(w, getPath(p, RelPathFSInFile), F)
      [] k = 4 -> unmountFSInFile(w, getPath(p, RelPathFSInFileMount), F)
      [] k = 5 -> unmountOverlayFS(w, getPath(p, RelPathFSInFileMount), p, F)

\* the calls of each rollback function that may fail for a reason of the
\* environment
RollbackCalls ==
    <<{"os.Remove"}, {"os.RemoveAll"}, {"os.RemoveAll"}, {"umount", "os.RemoveAll"},
      {"umount", "RemoveAll.upper", "RemoveAll.work"}>>

\* whether a deferred function of Mount calls its rollback: if err != nil
DeferFiresAlways(err) == TRUE

DeferFires(err) == err # Nil

\* the deferred functions run last registered first: the one to run next
NextDeferredFirst(defers) == 1

NextDeferred(defers) == Len(defers)

\* err after a deferred function called its rollback, which returned rerr:
\* the deferred function drops rerr
DeferredErrOverride(err, rerr) == IF rerr # Nil THEN rerr ELSE err

DeferredErr(err, rerr) == err

\* Mount returns: the deferred function registered last runs.  It calls its
\* rollback when err is not nil, and drops the error the rollback returns.
MountRunDeferred(p) ==
    /\ proc[p].pc = "mdefer"
    /\ proc[p].defers # <<>>
    /\ LET i == NextDeferred(proc[p].defers)
           k == proc[p].defers[i]
           rest == SubSeq(proc[p].defers, 1, i - 1)
                       \o SubSeq(proc[p].defers, i + 1, Len(proc[p].defers))
       IN  IF DeferFires(proc[p].err)
           THEN \E F \in SUBSET RollbackCalls[k] :
                   LET r == Rollback(World(fs, mtab), p, k, F)
                   IN  /\ Injected(r, F)
                       /\ nfault' = nfault + Cardinality(F)
                       /\ SetWorld(r.w)
                       /\ proc' = [proc EXCEPT ![p] =
                              [Logged(proc[p], Rollbacks[k], r, F) EXCEPT
                                  !.defers = rest,
                                  !.err = DeferredErr(proc[p].err, r.err)]]
           ELSE /\ proc' = [proc EXCEPT ![p].defers = rest]
                /\ UNCHANGED <<fs, mtab, nfault>>
    /\ UNCHANGED <<prev, ninv, cli>>

\* Mount has returned err to main
MountReturn(p) ==
    /\ proc[p].pc = "mdefer"
    /\ proc[p].defers = <<>>
    /\ proc' = [proc EXCEPT ![p].pc = "done",
                            ![p].ret = IF proc[p].err = Nil THEN RetNil
                                       ELSE RetErr(proc[p].err)]
    /\ UNCHANGED <<fs, mtab, prev, ninv, nfault, cli>>

--------------------------------------------------------------------------
(* Unmount *)

\* where Unmount goes on after step k (1 or 2) returned err: a non-nil err
\* is returned at once
EarlyNextContinue(k, err) == UnmountFlow[k]

EarlyNext(k, err) == IF err # Nil THEN "done" ELSE UnmountFlow[k]

\* where Unmount goes on after cleanup step k (3..7) returned err: to the
\* next step, whatever err is
CleanupNextAbort(k, err) == IF err # Nil THEN "done" ELSE UnmountFlow[k]

CleanupNext(k, err) == UnmountFlow[k]

\* Step k (1 or 2) of Unmount returned r: a non-nil err is wrapped and
\* returned at once.
UnmountEarlyStepDone(p, k, r, F, dsopts) ==
    /\ Injected(r, F)
    /\ nfault' = nfault + Cardinality(F)
    /\ SetWorld(r.w)
    /\ proc' = [proc EXCEPT ![p] =
           [Logged(proc[p], UnmountSteps[k], r, F) EXCEPT
               !.dsopts = dsopts,
               !.err = Wrap(r.err, UnmountPhase[k]),
               !.ret = IF r.err = Nil THEN RetNil ELSE RetErr(Wrap(r.err, UnmountPhase[k])),
               !.pc = EarlyNext(k, r.err)]]
    /\ UNCHANGED <<prev, ninv, cli>>

\* multierror.Append(result, err)
MultiAppendFirst(result, err) == IF result = <<>> THEN <<err>> ELSE result

MultiAppend(result, err) == Append(result, err)

\* what Unmount returns after its last cleanup step: result
UnmountResult(result) == RetMulti(result)

\* Cleanup step k (3..7) of Unmount returned r: its wrapped error is
\* appended to result when it is not nil, and the next step runs either way;
\* the last step returns result.
UnmountCleanupStepDone(p, k, r, F) ==
    LET err == Wrap(r.err, UnmountPhase[k])
        result == IF err # Nil THEN MultiAppend(proc[p].result, err) ELSE proc[p].result
    IN  /\ Injected(r, F)
        /\ nfault' = nfault + Cardinality(F)
        /\ SetWorld(r.w)
        /\ proc' = [proc EXCEPT ![p] =
               [Logged(proc[p], UnmountSteps[k], r, F) EXCEPT
                   !.err = err,
                   !.result = result,
                   !.ret = IF CleanupNext(k, err) = "done" THEN UnmountResult(result)
                           ELSE RetNil,
                   !.pc = CleanupNext(k, err)]]
        /\ UNCHANGED <<prev, ninv, cli>>

\* Unmount: dsopts, err = volp.readDatasetOpts(volp.getPath(kubeMountPath, RelPathOptions))
UnmountReadOpts(p) ==
    /\ proc[p].pc = "u1"
    /\ \E F \in SUBSET {"os.Open", "Decode"} :
          LET r == readDatasetOpts(World(fs, mtab), getPath(p, RelPathOptions), F)
          IN  UnmountEarlyStepDone(p, 1, r, F, r.dsopts)

\* Unmount: err = volp.handleOutput(kubeMountPath, dsopts.Output)
UnmountHandleOutput(p) ==
    /\ proc[p].pc = "u2"
    /\ \E F \in SUBSET {"NewS3", "Upload"} :
          LET r == handleOutput(World(fs, mtab), p, proc[p].dsopts.Output, F)
          IN  UnmountEarlyStepDone(p, 2, r, F, proc[p].dsopts)

\* Unmount: volp.unmountOverlayFS(mount/upper, mount/work, kubeMountPath)
UnmountOverlay(p) ==
    /\ proc[p].pc = "u3"
    /\ \E F \in SUBSET {"umount", "RemoveAll.upper", "RemoveAll.work"} :
          LET r == unmountOverlayFS(World(fs, mtab), getPath(p, RelPathFSInFileMount), p, F)
          IN  UnmountCleanupStepDone(p, 3, r, F)

\* Unmount: volp.unmountFSInFile(volp.getPath(kubeMountPath, RelPathFSInFileMount))
UnmountFS(p) ==
    /\ proc[p].pc = "u4"
    /\ \E F \in SUBSET {"umount", "os.RemoveAll"} :
          LET r == unmountFSInFile(World(fs, mtab), getPath(p, RelPathFSInFileMount), F)
          IN  UnmountCleanupStepDone(p, 4, r, F)

\* Unmount: volp.destroyFSInFile(volp.getPath(kubeMountPath, RelPathFSInFile))
UnmountDestroyFS(p) ==
    /\ proc[p].pc = "u5"
    /\ \E F \in SUBSET {"os.RemoveAll"} :
          LET r == destroyFSInFile(World(fs, mtab), getPath(p, RelPathFSInFile), F)
          IN  UnmountCleanupStepDone(p, 5, r, F)

\* Unmount: volp.destroyInput(volp.getPath(kubeMountPath, RelPathInput))
UnmountDestroyInput(p) ==
    /\ proc[p].pc = "u6"
    /\ \E F \in SUBSET {"os.RemoveAll"} :
          LET r == destroyInput(World(fs, mtab), getPath(p, RelPathInput), F)
          IN  UnmountCleanupStepDone(p, 6, r, F)

\* Unmount: volp.deleteDatasetOpts(volp.getPath(kubeMountPath, RelPathOptions))
UnmountDeleteOpts(p) ==
    /\ proc[p].pc = "u7"
    /\ \E F \in SUBSET {"os.Remove"} :
          LET r == deleteDatasetOpts(World(fs, mtab), getPath(p, RelPathOptions), F)
          IN  UnmountCleanupStepDone(p, 7, r, F)

--------------------------------------------------------------------------
(* main: the arguments of the process, the driver function they select and  *)
(* the output written to the standard output.                               *)

OperationInit == "init"

OperationMount == "mount"

OperationUnmount == "unmount"

StatusSuccess == "Success"

StatusFailure == "Failure"

StatusNotSupported == "Not supported"

Capabilities(attach) == [attach |-> attach]

Output(status, message, capabilities) ==
    [status |-> status, message |-> message, capabilities |-> capabilities]

\* (volp *DatasetVolumes) Init()
DatasetVolumesInitAttach == [caps |-> Capabilities(TRUE), err |-> RetNil]

DatasetVolumesInit == [caps |-> Capabilities(FALSE), err |-> RetNil]

\* the options argument of mount for the options opts, as the tokens of the
\* JSON text
OptionsJSON(opts) ==
    <<"{", "input/s3Key", opts.InputS3Key, "input/s3Bucket", opts.InputS3Bucket,
      "output/s3Key", opts.OutputS3Key, "output/s3Bucket", opts.OutputS3Bucket, "}">>

\* an options argument that is not JSON
BadJSON == <<"{">>

\* json.Unmarshal([]byte(os.Args[3]), &opts): [ok, opts]
Unmarshal(text) ==
    IF /\ Len(text) = 10
       /\ text[1] = "{" /\ text[10] = "}"
       /\ text[2] = "input/s3Key" /\ text[4] = "input/s3Bucket"
       /\ text[6] = "output/s3Key" /\ text[8] = "output/s3Bucket"
    THEN [ok |-> TRUE,
          opts |-> [InputS3Key |-> text[3], InputS3Bucket |-> text[5],
                    OutputS3Key |-> text[7], OutputS3Bucket |-> text[9]]]
    ELSE [ok |-> FALSE, opts |-> NoOpts]

\* the lines of a multierror, one for each error
RECURSIVE Bullets(_)
Bullets(errs) == IF errs = <<>> THEN <<>> ELSE <<"*">> \o errs[1] \o Bullets(Tail(errs))

\* err.Error() of the value a driver operation returned
ErrorText(ret) ==
    IF ret.errs = <<>> THEN <<>>
    ELSE IF ret.multi THEN <<"errors occurred:">> \o Bullets(ret.errs)
    ELSE ret.errs[1]

\* os.Args[0]
Program == "nerd-flex-volume"

\* the argument lists the process is run with
OsArgs ==
    {<<Program>>, <<Program, "init">>, <<Program, "attach">>,
     <<Program, "mount">>, <<Program, "unmount">>}
    \cup {<<Program, "mount", p>> : p \in MountPaths}
    \cup {<<Program, "mount", p, BadJSON>> : p \in MountPaths}
    \cup {<<Program, "mount", p, OptionsJSON(opts)>> : p \in MountPaths, opts \in MountOptions}
    \cup {<<Program, "unmount", p>> : p \in MountPaths}

\* main up to the call of the driver, without the checks of len(os.Args)
\* for mount and unmount
DispatchUnchecked(osArgs) ==
    LET none == [fatal |-> FALSE, driver |-> "none", caps |-> Capabilities(FALSE),
                 err |-> RetNil]
    IN  IF Len(osArgs) < 2 THEN [none EXCEPT !.fatal = TRUE]
        ELSE CASE osArgs[2] = OperationInit ->
                    [none EXCEPT !.driver = "Init", !.caps = DatasetVolumesInit.caps,
                                 !.err = DatasetVolumesInit.err]
               [] osArgs[2] = OperationMount ->
                    IF Len(osArgs) < 4 THEN none
                    ELSE IF ~Unmarshal(osArgs[4]).ok THEN none
                    ELSE [none EXCEPT !.driver = "Mount"]
               [] osArgs[2] = OperationUnmount ->
                    IF Len(osArgs) < 3 THEN none
                    ELSE [none EXCEPT !.driver = "Unmount"]
               [] OTHER -> none

\* main up to the call of the driver: whether it ends in log.Fatalf, the
\* driver function it calls, and the capabilities and err it has without
\* calling Mount or Unmount
Dispatch(osArgs) ==
    LET none == [fatal |-> FALSE, driver |-> "none", caps |-> Capabilities(FALSE),
                 err |-> RetNil]
    IN  IF Len(osArgs) < 2 THEN [none EXCEPT !.fatal = TRUE]
        ELSE CASE osArgs[2] = OperationInit ->
                    [none EXCEPT !.driver = "Init", !.caps = DatasetVolumesInit.caps,
                                 !.err = DatasetVolumesInit.err]
               [] osArgs[2] = OperationMount ->
                    IF Len(osArgs) < 4
                    THEN [none EXCEPT !.err =
                             RetErr(New("expected at least 4 arguments for mount"))]
                    ELSE IF ~Unmarshal(osArgs[4]).ok
                    THEN [none EXCEPT !.err = RetErr(New("json.Unmarshal"))]
                    ELSE [none EXCEPT !.driver = "Mount"]
               [] osArgs[2] = OperationUnmount ->
                    IF Len(osArgs) < 3
                    THEN [none EXCEPT !.err =
                             RetErr(New("expected at least 3 arguments for unmount"))]
                    ELSE [none EXCEPT !.driver = "Unmount"]
               [] OTHER -> none

\* the output of main when err does not change the status
MainOutputKeepStatus(operation, caps, err) ==
    CASE operation = OperationInit ->
            Output(StatusSuccess, <<"Initialization successful">>, caps)
      [] operation = OperationMount ->
            Output(StatusSuccess, <<"Mount successful">>, caps)
      [] operation = OperationUnmount ->
            Output(StatusSuccess, <<"Unmount successful">>, caps)
      [] OTHER ->
            Output(StatusNotSupported, <<"operation", operation, "is unsupported">>, caps)

\* the output main has built before it encodes it: the default is
\* "Not supported", each known operation sets its success message, and a
\* non-nil err makes it a failure with the text of err
MainOutput(operation, caps, err) ==
    LET base ==
            CASE operation = OperationInit ->
                    Output(StatusSuccess, <<"Initialization successful">>, caps)
              [] operation = OperationMount ->
                    Output(StatusSuccess, <<"Mount successful">>, caps)
              [] operation = OperationUnmount ->
                    Output(StatusSuccess, <<"Unmount successful">>, caps)
              [] OTHER ->
                    Output(StatusNotSupported, <<"operation", operation, "is unsupported">>,
                           caps)
    IN  IF err # RetNil
        THEN [base EXCEPT !.status = StatusFailure, !.message = ErrorText(err)]
        ELSE base

\* main with arguments that lead to no call of Mount or Unmount, from its
\* start to the encoding of the output
MainWithoutMount(osArgs) ==
    LET d == Dispatch(osArgs)
    IN  /\ cli.pc = "idle"
        /\ \A p \in MountPaths : proc[p].pc = "idle"
        /\ d.driver \in {"none", "Init"}
        /\ \E F \in SUBSET {"Encode.stdout"} :
              /\ d.fatal => F = {}
              /\ nfault + Cardinality(F) <= MaxFaults
              /\ nfault' = nfault + Cardinality(F)
              /\ cli' = [pc |-> "done", osArgs |-> osArgs,
                         stdout |-> IF d.fatal \/ F # {} THEN <<>>
                                    ELSE <<MainOutput(osArgs[2], d.caps, d.err)>>,
                         fatal |-> d.fatal \/ F # {},
                         driver |-> d.driver]
        /\ UNCHANGED <<fs, mtab, proc, prev, ninv>>

\* the process is run with the arguments osArgs
Main(osArgs) ==
    /\ cli.pc = "idle"
    /\ \E p \in MountPaths : proc[p].pc = "idle"
    /\ LET d == Dispatch(osArgs)
       IN  \/ d.driver = "Mount" /\ InvokeMount(osArgs[3], Unmarshal(osArgs[4]).opts)
           \/ d.driver = "Unmount" /\ InvokeUnmount(osArgs[3])
           \/ MainWithoutMount(osArgs)

\* Mount or Unmount has returned err to main, which encodes the output to
\* the standard output; log.Fatalf when that fails
MainEmit(p) ==
    /\ proc[p].pc = "done"
    /\ proc[p].stdout = <<>> /\ ~proc[p].fatal
    /\ \E F \in SUBSET {"Encode.stdout"} :
          /\ nfault + Cardinality(F) <= MaxFaults
          /\ nfault' = nfault + Cardinality(F)
          /\ proc' = [proc EXCEPT
                 ![p].stdout = IF F # {} THEN <<>>
                               ELSE <<MainOutput(proc[p].op, Capabilities(FALSE),
                                                 proc[p].ret)>>,
                 ![p].fatal = F # {},
                 ![p].faulty = @ \/ F # {}]
    /\ UNCHANGED <<fs, mtab, prev, ninv, cli>>

\* a process that called neither Mount nor Unmount exits
CliExit ==
    /\ cli.pc = "done"
    /\ cli' = IdleCli
    /\ UNCHANGED <<fs, mtab, proc, prev, ninv, nfault>>

\* The process has written its output and exits; the kubelet remembers how
\* the operation ended.
Exit(p) ==
    /\ proc[p].pc = "done"
    /\ proc[p].stdout # <<>> \/ proc[p].fatal
    /\ prev' = [prev EXCEPT ![p] =
           [op |-> proc[p].op, dsopts |-> proc[p].dsopts, ok |-> proc[p].ret = RetNil,
            faulty |-> proc[p].faulty, clean |-> Clean(proc[p].pre, p)]]
    /\ proc' = [proc EXCEPT ![p] = IdleProc]
    /\ UNCHANGED <<fs, mtab, ninv, nfault, cli>>

Next ==
    \/ \E osArgs \in OsArgs : Main(osArgs)
    \/ CliExit
    \/ \E p \in MountPaths :
        \/ MountWriteOpts(p)
        \/ MountProvisionInput(p)
        \/ MountCreateFS(p)
        \/ MountMountFS(p)
        \/ MountOverlay(p)
        \/ MountRunDeferred(p)
        \/ MountReturn(p)
        \/ UnmountReadOpts(p)
        \/ UnmountHandleOutput(p)
        \/ UnmountOverlay(p)
        \/ UnmountFS(p)
        \/ UnmountDestroyFS(p)
        \/ UnmountDestroyInput(p)
        \/ UnmountDeleteOpts(p)
        \/ MainEmit(p)
        \/ Exit(p)

Spec == Init /\ [][Next]_vars

--------------------------------------------------------------------------
(* Properties.  What the log of an invocation shows. *)

FnSeq(steps) == [i \in 1..Len(steps) |-> steps[i].fn]

IsForward(e) == e.fn \in {"writeDatasetOpts", "provisionInput", "createFSInFile",
                          "mountFSInFile", "mountOverlayFS"}

IsRollback(e) == e.fn \in {"deleteDatasetOpts", "destroyInput", "destroyFSInFile",
                           "unmountFSInFile", "unmountOverlayFS"}

\* the forward steps Mount has invoked, with the error each returned
Forward(p) == SelectSeq(proc[p].steps, IsForward)

\* the rollback functions Mount has invoked, in the order of their invocation
RolledBack(p) == FnSeq(SelectSeq(proc[p].steps, IsRollback))

\* the rollback functions of steps n, n-1, ..., 1
RollbackOfStep ==
    <<"deleteDatasetOpts", "destroyInput", "destroyFSInFile", "unmountFSInFile",
      "unmountOverlayFS">>

Descending(n) == [i \in 1..n |-> RollbackOfStep[n + 1 - i]]

IsPrefix(s, t) == Len(s) <= Len(t) /\ \A i \in 1..Len(s) : s[i] = t[i]

MountDone(p) == proc[p].op = "mount" /\ proc[p].pc = "done"

MountFailed(p) == MountDone(p) /\ proc[p].ret # RetNil

UnmountDone(p) == proc[p].op = "unmount" /\ proc[p].pc = "done"

\* the sidecar file, the input directory, the backing file, the loop mount
\* of the backing file and the overlay mount on the mount path all exist
AllMounted(w, p) ==
    /\ w.fs[getPath(p, "json")].kind = "file"
    /\ w.fs[getPath(p, "input")].kind = "dir"
    /\ w.fs[getPath(p, "volume")].kind = "file"
    /\ w.fs[getPath(p, "mount")].kind = "dir"
    /\ IsMounted(w, getPath(p, "mount")) /\ Top(w, getPath(p, "mount")).type = "loop"
    /\ IsMounted(w, p) /\ Top(w, p).type = "overlay"

\* C1: Mount invokes its forward steps in the order writeDatasetOpts,
\* provisionInput, createFSInFile, mountFSInFile, mountOverlayFS, each only
\* after all the steps before it succeeded; it returns nil iff all five
\* succeeded, and then no rollback was invoked and the sidecar file, input
\* directory, backing file, loop mount and overlay mount all exist.
C1_MountForwardSteps ==
    \A p \in MountPaths :
        proc[p].op = "mount" =>
            LET fw == Forward(p)
            IN  /\ IsPrefix(FnSeq(fw), <<"writeDatasetOpts", "provisionInput",
                                         "createFSInFile", "mountFSInFile",
                                         "mountOverlayFS">>)
                /\ \A i \in 1..Len(fw) : proc[p].steps[i] = fw[i]
                /\ \A i \in 1..(Len(fw) - 1) : fw[i].err = Nil
                /\ proc[p].pc = "done" =>
                      (proc[p].ret = RetNil <=>
                          Len(fw) = 5 /\ \A i \in 1..5 : fw[i].err = Nil)
                /\ proc[p].pc = "done" /\ proc[p].ret = RetNil =>
                      RolledBack(p) = <<>> /\ AllMounted(World(fs, mtab), p)

C1_Witness ==
    \E p \in MountPaths :
        MountDone(p) /\ proc[p].ret = RetNil /\ Len(Forward(p)) = 5

\* C2: when Mount fails at step N, the rollback of each of the steps 1..N-1
\* has been invoked exactly once when Mount returns, and these rollbacks were
\* invoked in descending step order, that of step 1 (deleteDatasetOpts) last.
C2_RollbackOfCompletedSteps ==
    \A p \in MountPaths :
        /\ proc[p].op = "mount" =>
              \A i, j \in 1..Len(RolledBack(p)) :
                  i # j => RolledBack(p)[i] # RolledBack(p)[j]
        /\ MountFailed(p) =>
              LET N == Len(Forward(p))
                  Earlier(f) == \E j \in 1..(N - 1) : f = RollbackOfStep[j]
              IN  SelectSeq(RolledBack(p), Earlier) = Descending(N - 1)

C2_Witness ==
    \E p \in MountPaths :
        /\ MountFailed(p)
        /\ Len(Forward(p)) = 5
        /\ Len(RolledBack(p)) >= 4

\* C3 as claimed: when Mount fails at step N, the rollbacks invoked are
\* exactly those of the steps N-1, ..., 1, and the rollback of the failing
\* step itself is not invoked.
C3_AsClaimed ==
    \A p \in MountPaths :
        MountFailed(p) => RolledBack(p) = Descending(Len(Forward(p)) - 1)

\* C3, amended: when Mount fails at step N, the rollbacks invoked are exactly
\* those of the steps N, N-1, ..., 1 in that order: the rollback of the
\* failing step itself runs first, and no rollback of a step above N is
\* invoked.
C3_RollbackIncludesFailingStep ==
    \A p \in MountPaths :
        /\ proc[p].op = "mount" => IsPrefix(RolledBack(p), Descending(Len(Forward(p))))
        /\ MountFailed(p) => RolledBack(p) = Descending(Len(Forward(p)))

\* step 4 (mountFSInFile) failed: unmountFSInFile, destroyFSInFile,
\* destroyInput and deleteDatasetOpts were invoked
C3_Witness ==
    \E p \in MountPaths :
        /\ MountFailed(p)
        /\ Len(Forward(p)) = 4
        /\ RolledBack(p) = <<"unmountFSInFile", "destroyFSInFile", "destroyInput",
                             "deleteDatasetOpts">>

\* C4: the error Mount returns is the error of the forward step that
\* failed, wrapped with the message of that step, whichever rollbacks failed.
C4_MountReturnsStepError ==
    \A p \in MountPaths :
        MountFailed(p) =>
            LET fw == Forward(p)
                N == Len(fw)
                phase == <<"failed to write volume database", "failed to provision input",
                           "failed to create file system in a file",
                           "failed to mount file system in a file",
                           "failed to mount overlayfs">>
            IN  /\ N >= 1
                /\ fw[N].err # Nil
                /\ proc[p].ret = [multi |-> FALSE, errs |-> << <<phase[N]>> \o fw[N].err >>]

\* Mount failed at step 3 or later and the rollback of an earlier step
\* failed as well
C4_Witness ==
    \E p \in MountPaths :
        /\ MountFailed(p)
        /\ Len(Forward(p)) >= 3
        /\ \E i \in 1..Len(proc[p].steps) :
              /\ proc[p].steps[i].fn \in {"destroyInput", "deleteDatasetOpts"}
              /\ proc[p].steps[i].err # Nil

\* the options have an input key without a bucket or an output key without one
KeyWithoutBucket(opts) ==
    \/ opts.InputS3Key # "" /\ opts.InputS3Bucket = ""
    \/ opts.OutputS3Key # "" /\ opts.OutputS3Bucket = ""

\* C5: a Mount whose options have a key without a bucket returns a failure,
\* never invokes Download, mkfs or mount, and leaves every file, directory and
\* mount as it was before the call, a sidecar file that existed included.
C5_RejectedWithoutSideEffect ==
    \A p \in MountPaths :
        proc[p].op = "mount" /\ KeyWithoutBucket(proc[p].opts) =>
            /\ World(fs, mtab) = proc[p].pre
            /\ Range(proc[p].calls) \cap {"Download", "mkfs", "mount"} = {}
            /\ proc[p].pc = "done" => proc[p].ret # RetNil

\* the positions of a call in the calls of an invocation
Positions(calls, c) == {i \in 1..Len(calls) : calls[i] = c}

\* C6: Unmount invokes its steps in the order readDatasetOpts, handleOutput,
\* unmountOverlayFS, unmountFSInFile, destroyFSInFile, destroyInput,
\* deleteDatasetOpts; Upload is called before any umount, and the umount of
\* the overlay before that of the backing file.
C6_UnmountStepOrder ==
    \A p \in MountPaths :
        proc[p].op = "unmount" =>
            /\ IsPrefix(FnSeq(proc[p].steps),
                        <<"readDatasetOpts", "handleOutput", "unmountOverlayFS",
                          "unmountFSInFile", "destroyFSInFile", "destroyInput",
                          "deleteDatasetOpts">>)
            /\ \A i \in Positions(proc[p].calls, "Upload") :
                  \A j \in Positions(proc[p].calls, "umount") : i < j
            /\ \A i \in Positions(proc[p].calls, "umount") :
                  \A j \in Positions(proc[p].calls, "os.Remove") : i < j

\* an Unmount that uploaded the output and ran to its last step
C6_Witness ==
    \E p \in MountPaths :
        /\ UnmountDone(p)
        /\ Len(proc[p].steps) = 7
        /\ Positions(proc[p].calls, "Upload") # {}
        /\ Cardinality(Positions(proc[p].calls, "umount")) = 2

\* C7 as claimed: if step k of Unmount fails, none of the steps k+1..7 is
\* invoked.
C7_AsClaimed ==
    \A p \in MountPaths :
        proc[p].op = "unmount" =>
            \A k \in 1..Len(proc[p].steps) :
                proc[p].steps[k].err # Nil => Len(proc[p].steps) = k

\* C7, amended: a failure of step 1 (readDatasetOpts) or step 2
\* (handleOutput) of Unmount is returned at once and no later step is
\* invoked; once step 3 is reached, all of the steps 3..7 are invoked before
\* Unmount returns, whichever of them fail.
C7_OnlyEarlyStepsAbort ==
    \A p \in MountPaths :
        proc[p].op = "unmount" =>
            /\ \A k \in {1, 2} :
                  k <= Len(proc[p].steps) /\ proc[p].steps[k].err # Nil =>
                      Len(proc[p].steps) = k /\ proc[p].pc = "done"
            /\ proc[p].pc = "done" /\ Len(proc[p].steps) > 2 => Len(proc[p].steps) = 7

\* unmountOverlayFS failed and the four steps after it were still invoked
C7_Witness ==
    \E p \in MountPaths :
        /\ UnmountDone(p)
        /\ Len(proc[p].steps) = 7
        /\ proc[p].steps[3].err # Nil

\* the errors of the cleanup steps 3..7 that failed, each wrapped with the
\* message of its step, in step order
CleanupErrors(steps) ==
    LET phase == <<"failed to unmount overlayfs", "failed to unmount file system in a file",
                   "failed to delete file system in a file", "failed to delete input data",
                   "failed to delete dataset">>
        wrapped == [i \in 1..5 |->
                       IF steps[i + 2].err = Nil THEN <<>>
                       ELSE <<phase[i]>> \o steps[i + 2].err]
        Failed(e) == e # <<>>
    IN  SelectSeq(wrapped, Failed)

\* C8: once readDatasetOpts and handleOutput succeeded, Unmount invokes all
\* five cleanup steps, returns the errors of those that failed, in step
\* order, and returns nil iff all five succeeded.
C8_UnmountAggregatesErrors ==
    \A p \in MountPaths :
        UnmountDone(p) /\ Len(proc[p].steps) >= 3 =>
            /\ Len(proc[p].steps) = 7
            /\ proc[p].ret.errs = CleanupErrors(proc[p].steps)
            /\ proc[p].ret.multi = (proc[p].ret.errs # <<>>)
            /\ proc[p].ret = RetNil <=> \A k \in 3..7 : proc[p].steps[k].err = Nil

\* two cleanup steps failed, with a step that succeeded between them
C8_Witness ==
    \E p \in MountPaths :
        /\ UnmountDone(p)
        /\ Len(proc[p].steps) = 7
        /\ \E i, j, k \in 3..7 :
              /\ i < j /\ j < k
              /\ proc[p].steps[i].err # Nil
              /\ proc[p].steps[j].err = Nil
              /\ proc[p].steps[k].err # Nil

\* C9: an Unmount that fails at readDatasetOpts or at handleOutput returns a
\* failure, invokes no teardown step and leaves every file, directory and
\* mount as it was; when readDatasetOpts fails, Upload is not called.
C9_EarlyFailureLeavesState ==
    \A p \in MountPaths :
        /\ proc[p].op = "unmount"
        /\ \E k \in {1, 2} : k <= Len(proc[p].steps) /\ proc[p].steps[k].err # Nil
        => /\ \A i \in 1..Len(proc[p].steps) :
                 proc[p].steps[i].fn \in {"readDatasetOpts", "handleOutput"}
           /\ Range(proc[p].calls) \cap
                 {"umount", "os.RemoveAll", "os.Remove", "RemoveAll.upper",
                  "RemoveAll.work"} = {}
           /\ World(fs, mtab) = proc[p].pre
           /\ proc[p].pc = "done" /\ proc[p].ret # RetNil
           /\ proc[p].steps[1].err # Nil => "Upload" \notin Range(proc[p].calls)

\* the upload failed on a fully mounted context
C9_Witness ==
    \E p \in MountPaths :
        /\ UnmountDone(p)
        /\ Len(proc[p].steps) = 2
        /\ proc[p].steps[2].err # Nil
        /\ AllMounted(World(fs, mtab), p)

\* the options configure neither an input nor an output reference
NoRefs(opts) == opts.InputS3Key = "" /\ opts.OutputS3Key = ""

\* C10: from a context with no derived resources, a Mount without input and
\* output reference in which no call fails returns nil, and an Unmount right
\* after it in which no call fails returns nil as well and leaves no derived
\* resource and no mount: the state is that before the Mount.
C10_MountUnmountLeavesNothing ==
    \A p \in MountPaths :
        /\ /\ MountDone(p)
           /\ ~proc[p].faulty
           /\ NoRefs(proc[p].opts)
           /\ Clean(proc[p].pre, p)
           => proc[p].ret = RetNil
        /\ /\ UnmountDone(p)
           /\ ~proc[p].faulty
           /\ prev[p].op = "mount" /\ prev[p].clean /\ ~prev[p].faulty /\ prev[p].ok
           /\ prev[p].dsopts = [Input |-> <<>>, Output |-> <<>>]
           => /\ proc[p].ret = RetNil
              /\ Clean(World(fs, mtab), p)
              /\ fs[p] = Dir({})

C10_Witness ==
    \E p \in MountPaths :
        /\ UnmountDone(p)
        /\ ~proc[p].faulty
        /\ prev[p].op = "mount" /\ prev[p].clean /\ ~prev[p].faulty /\ prev[p].ok
        /\ prev[p].dsopts = [Input |-> <<>>, Output |-> <<>>]
        /\ proc[p].ret = RetNil

\* C11: after a Mount that returned a failure on a context with no derived
\* resources, a Mount on the same mount path with valid options in which no
\* call fails for a reason of the environment returns nil.
C11_MountRetrySucceeds ==
    \A p \in MountPaths :
        /\ MountDone(p)
        /\ ~proc[p].faulty
        /\ ~KeyWithoutBucket(proc[p].opts)
        /\ prev[p].op = "mount" /\ ~prev[p].ok /\ prev[p].clean
        => proc[p].ret = RetNil

\* the sidecar file, input directory, backing file, loop mount and overlay
\* mount of p are in w as they are in v
SameMount(w, v, p) ==
    /\ \A n \in {"json", "input", "volume", "mount"} :
          w.fs[getPath(p, n)] = v.fs[getPath(p, n)]
    /\ w.mtab[getPath(p, "mount")] = v.mtab[getPath(p, "mount")]
    /\ w.mtab[p] = v.mtab[p]

\* C13: a Mount invoked after a Mount of the same mount path returned nil,
\* with no Unmount between them, returns nil, or it returns a failure and
\* leaves the sidecar file, input directory, backing file, loop mount and
\* overlay mount as the first Mount left them.
C13_SecondMountKeepsFirst ==
    \A p \in MountPaths :
        MountDone(p) /\ prev[p].op = "mount" /\ prev[p].ok =>
            \/ proc[p].ret = RetNil
            \/ SameMount(World(fs, mtab), proc[p].pre, p)

\* C14: whenever no invocation is in progress on a mount path and its
\* sidecar file is absent, there is no overlay mount, no loop mount, no mount
\* directory, no backing file and no input directory of that mount path.
C14_NoSidecarNoResources ==
    \A p \in MountPaths :
        proc[p].pc = "idle" /\ fs[getPath(p, "json")].kind = "none" =>
            /\ mtab[p] = <<>>
            /\ mtab[getPath(p, "mount")] = <<>>
            /\ \A n \in {"mount", "volume", "input"} : fs[getPath(p, n)].kind = "none"

\* C15: for all mount options in which every key has a bucket, wherever
\* Mount is about to write them, writeDatasetOpts to the sidecar path
\* followed by readDatasetOpts of the same path gives dataset options equal to those written: each reference is
\* present iff its key is set, with the key and the bucket of the options.
\* So the Unmount after a Mount that returned nil reads the dataset options
\* that Mount wrote.
C15_SaveLoadRoundTrip ==
    \A p \in MountPaths :
        /\ \A opts \in MountOptions :
              LET path == getPath(p, "json")
                  s == writeDatasetOpts(World(fs, mtab), path, opts, {})
                  l == readDatasetOpts(s.w, path, {})
              IN  proc[p].pc = "m1" /\ ~KeyWithoutBucket(opts) /\ s.err = Nil =>
                      /\ l.err = Nil
                      /\ l.dsopts = s.dsopts
                      /\ l.dsopts.Input =
                            IF opts.InputS3Key = "" THEN <<>>
                            ELSE <<[Key |-> opts.InputS3Key, Bucket |-> opts.InputS3Bucket]>>
                      /\ l.dsopts.Output =
                            IF opts.OutputS3Key = "" THEN <<>>
                            ELSE <<[Key |-> opts.OutputS3Key, Bucket |-> opts.OutputS3Bucket]>>
        /\ /\ proc[p].op = "unmount"
           /\ prev[p].op = "mount" /\ prev[p].ok
           /\ Len(proc[p].steps) >= 1 /\ proc[p].steps[1].err = Nil
           => proc[p].dsopts = prev[p].dsopts

\* an Unmount has read the options of a Mount with an input reference and
\* without an output reference
C15_Witness ==
    \E p \in MountPaths :
        /\ proc[p].op = "unmount"
        /\ prev[p].op = "mount" /\ prev[p].ok
        /\ prev[p].dsopts = [Input |-> <<[Key |-> "k", Bucket |-> "b"]>>, Output |-> <<>>]
        /\ Len(proc[p].steps) >= 1 /\ proc[p].steps[1].err = Nil
        /\ proc[p].dsopts = [Input |-> <<[Key |-> "k", Bucket |-> "b"]>>, Output |-> <<>>]

\* C17 as claimed: every process that has ended, whatever its arguments, has
\* written exactly one result object to its standard output (a process whose
\* write to the standard output failed aside).
C17_OneResultObject ==
    /\ cli.pc = "done" /\ ~(cli.fatal /\ Len(cli.osArgs) >= 2) => Len(cli.stdout) = 1
    /\ \A p \in MountPaths :
          proc[p].pc = "done" /\ proc[p].stdout # <<>> => Len(proc[p].stdout) = 1

\* C18: the status of the result written is Failure, with the text of the
\* error as message, iff the handling of the arguments or the driver
\* operation gave an error, and Success otherwise, for init, mount and
\* unmount; for any other operation it is "Not supported" and no driver
\* operation was called.
C18_StatusFollowsOutcome ==
    /\ cli.pc = "done" /\ cli.stdout # <<>> =>
          LET o == cli.stdout[1]
              op == cli.osArgs[2]
          IN  /\ op = "init" =>
                    o.status = "Success" /\ o.message = <<"Initialization successful">>
              /\ op = "mount" =>
                    /\ o.status = "Failure"
                    /\ o.message \in {<<"expected at least 4 arguments for mount">>,
                                      <<"json.Unmarshal">>}
              /\ op = "unmount" =>
                    /\ o.status = "Failure"
                    /\ o.message = <<"expected at least 3 arguments for unmount">>
              /\ op \notin {"init", "mount", "unmount"} =>
                    o.status = "Not supported" /\ cli.driver = "none"
    /\ \A p \in MountPaths :
          proc[p].pc = "done" /\ proc[p].stdout # <<>> =>
              LET o == proc[p].stdout[1]
                  ret == proc[p].ret
              IN  /\ o.status = IF ret.errs = <<>> THEN "Success" ELSE "Failure"
                  /\ ret.errs = <<>> =>
                        o.message = IF proc[p].op = "mount" THEN <<"Mount successful">>
                                    ELSE <<"Unmount successful">>
                  /\ ret.errs # <<>> /\ ~ret.multi => o.message = ret.errs[1]
                  /\ ret.multi =>
                        \A i \in 1..Len(ret.errs) :
                            \E j \in 1..Len(o.message) : o.message[j] = ret.errs[i][1]

\* an Unmount in which two cleanup steps failed has written a Failure
C18_Witness ==
    \E p \in MountPaths :
        /\ proc[p].op = "unmount" /\ proc[p].pc = "done"
        /\ proc[p].ret.multi /\ Len(proc[p].ret.errs) = 2
        /\ proc[p].stdout # <<>>
        /\ proc[p].stdout[1].status = "Failure"

\* C19: a process run for mount without the mount path or the options, or
\* with options that are not JSON, or for unmount without the mount path,
\* calls no driver operation, changes no file, directory or mount and no
\* driver process, and the result it writes is a Failure.
C19_BadArgumentsFail ==
    [][(/\ cli.pc = "idle" /\ cli'.pc = "done"
        /\ Len(cli'.osArgs) >= 2
        /\ cli'.osArgs[2] \in {"mount", "unmount"})
       => /\ cli'.driver = "none"
          /\ fs' = fs /\ mtab' = mtab /\ proc' = proc /\ prev' = prev
          /\ cli'.stdout = <<>> => cli'.fatal
          /\ cli'.stdout # <<>> =>
                /\ Len(cli'.stdout) = 1
                /\ cli'.stdout[1].status = "Failure"
                /\ cli'.stdout[1].message # <<>>]_vars

\* mount was run with options that are not JSON while the context was mounted
C19_Witness ==
    /\ cli.pc = "done"
    /\ Len(cli.osArgs) = 4 /\ cli.osArgs[2] = "mount"
    /\ cli.stdout # <<>> /\ cli.stdout[1].status = "Failure"
    /\ \E p \in MountPaths : AllMounted(World(fs, mtab), p)

\* C20: init, run in any state and any number of times, calls Init of the
\* driver and nothing else, changes no file, directory or mount, and the
\* result it writes is a Success with capabilities attach = false; the
\* results written for mount and unmount have attach = false as well.
C20_InitReportsNoAttach ==
    [][/\ (/\ cli.pc = "idle" /\ cli'.pc = "done"
           /\ Len(cli'.osArgs) >= 2 /\ cli'.osArgs[2] = "init")
          => /\ cli'.driver = "Init"
             /\ fs' = fs /\ mtab' = mtab /\ proc' = proc /\ prev' = prev
             /\ cli'.stdout = <<>> => cli'.fatal
             /\ cli'.stdout # <<>> =>
                   cli'.stdout = <<[status |-> "Success",
                                    message |-> <<"Initialization successful">>,
                                    capabilities |-> [attach |-> FALSE]]>>
       /\ \A p \in MountPaths :
             proc'[p].stdout # <<>> => ~proc'[p].stdout[1].capabilities.attach]_vars

\* init has written its result while the context was mounted
C20_Witness ==
    /\ cli.pc = "done"
    /\ cli.osArgs = <<"nerd-flex-volume", "init">>
    /\ cli.stdout # <<>>
    /\ \E p \in MountPaths : AllMounted(World(fs, mtab), p)

--------------------------------------------------------------------------
(* Retries of Unmount.  The context is mounted, and the kubelet invokes     *)
(* Unmount again whenever the Unmount before it returned a failure.         *)

\* the world after Mount(p, opts) returned nil on the world w
MountedWorld(w, p, opts) ==
    LET s1 == writeDatasetOpts(w, getPath(p, RelPathOptions), opts, {})
        s2 == provisionInput(s1.w, getPath(p, RelPathInput), s1.dsopts.Input, {})
        s3 == createFSInFile(s2.w, getPath(p, RelPathFSInFile), {})
        s4 == mountFSInFile(s3.w, getPath(p, RelPathFSInFile),
                            getPath(p, RelPathFSInFileMount), {})
        s5 == mountOverlayFS(s4.w, getPath(p, RelPathFSInFileMount),
                             getPath(p, RelPathInput), p, {})
    IN  s5.w

\* every mount path has been mounted, with options the driver accepts
InitMounted ==
    /\ \E opts \in {o \in MountOptions : ValidateOpts(o).err = Nil} :
          LET w0 == World([n \in Paths |-> IF n \in MountPaths THEN Dir({}) ELSE Absent],
                          [n \in Paths |-> <<>>])
              w == MountedWorld(w0, CHOOSE p \in MountPaths : TRUE, opts)
          IN  /\ fs = w.fs
              /\ mtab = w.mtab
              /\ prev = [p \in AllMountPaths |->
                            IF p \in MountPaths
                            THEN [op |-> "mount", dsopts |-> ValidateOpts(opts).dsopts,
                                  ok |-> TRUE, faulty |-> FALSE, clean |-> TRUE]
                            ELSE NoPrev]
    /\ proc = [p \in AllMountPaths |-> IdleProc]
    /\ ninv = 1
    /\ nfault = 0
    /\ cli = IdleCli

\* the kubelet invokes Unmount on the mounted context, and again after an
\* Unmount that returned a failure
ReinvokeUnmount(p) ==
    /\ proc[p].pc = "idle"
    /\ prev[p].op = "mount" \/ (prev[p].op = "unmount" /\ ~prev[p].ok)
    /\ proc' = [proc EXCEPT ![p] = [IdleProc EXCEPT !.pc = "u1", !.op = "unmount",
                                     !.pre = World(fs, mtab)]]
    /\ UNCHANGED <<fs, mtab, prev, ninv, nfault, cli>>

NextRetry ==
    \E p \in MountPaths :
        \/ ReinvokeUnmount(p)
        \/ UnmountReadOpts(p)
        \/ UnmountHandleOutput(p)
        \/ UnmountOverlay(p)
        \/ UnmountFS(p)
        \/ UnmountDestroyFS(p)
        \/ UnmountDestroyInput(p)
        \/ UnmountDeleteOpts(p)
        \/ MainEmit(p)
        \/ Exit(p)

\* every process runs to its end and the kubelet does not give up
SpecRetry == InitMounted /\ [][NextRetry]_vars /\ WF_vars(NextRetry)

\* C12: on a mounted context, with the kubelet invoking Unmount again after
\* every Unmount that returned a failure and only finitely many calls failing
\* for a reason of the environment, some Unmount eventually returns nil and
\* then no derived resource of the context is left.
C12_UnmountRetrySucceeds ==
    <>(\E p \in MountPaths :
          /\ UnmountDone(p)
          /\ proc[p].ret = RetNil
          /\ Clean(World(fs, mtab), p))

--------------------------------------------------------------------------
(* Two contexts.  The kubelet has created two mount paths in the same       *)
(* directory, and the processes it runs on them take their steps in any     *)
(* order.                                                                   *)

\* both mount paths exist and nothing else does
InitTwo ==
    /\ fs = [n \in Paths |-> IF n \in AllMountPaths THEN Dir({}) ELSE Absent]
    /\ mtab = [n \in Paths |-> <<>>]
    /\ proc = [p \in AllMountPaths |-> IdleProc]
    /\ prev = [p \in AllMountPaths |-> NoPrev]
    /\ ninv = 0
    /\ nfault = 0
    /\ cli = IdleCli

\* the options the two contexts are mounted with
TwoOptions ==
    {NoOpts,
     [InputS3Key |-> "k", InputS3Bucket |-> "b", OutputS3Key |-> "k", OutputS3Bucket |-> "b"]}

NextTwo ==
    \E p \in AllMountPaths :
        \/ \E opts \in TwoOptions : InvokeMount(p, opts)
        \/ InvokeUnmount(p)
        \/ MountWriteOpts(p)
        \/ MountProvisionInput(p)
        \/ MountCreateFS(p)
        \/ MountMountFS(p)
        \/ MountOverlay(p)
        \/ MountRunDeferred(p)
        \/ MountReturn(p)
        \/ UnmountReadOpts(p)
        \/ UnmountHandleOutput(p)
        \/ UnmountOverlay(p)
        \/ UnmountFS(p)
        \/ UnmountDestroyFS(p)
        \/ UnmountDestroyInput(p)
        \/ UnmountDeleteOpts(p)
        \/ MainEmit(p)
        \/ Exit(p)

SpecTwo == InitTwo /\ [][NextTwo]_vars

\* the mount path b and its sidecar file, input directory, backing file and
\* mount directory, with what is mounted on them
Resources(f, m, b) ==
    [n \in {b} \cup Derived(b) |-> [node |-> f[n], mounts |-> m[n]]]

\* C16: a step of a process on the mount path a leaves the mount path,
\* sidecar file, input directory, backing file and mount directory of any
\* other mount path b as they are.
C16_ContextsDoNotInteract ==
    [][\A a, b \in AllMountPaths :
          a # b /\ proc'[a] # proc[a] =>
              Resources(fs', mtab', b) = Resources(fs, mtab, b)]_vars


--------------------------------------------------------------------------
\* the overlay is mounted on the mount path p in the world w
OverlayMounted(w, p) == IsMounted(w, p) /\ Top(w, p).type = "overlay"

\* C21: Upload is invoked only while the overlay is mounted on the target
\* path: an Unmount that called Upload started from a world in which the
\* overlay was mounted on its mount path (nothing changes the world between
\* the start of Unmount and its handleOutput step).
C21_UploadOnlyWhileOverlayMounted ==
    \A p \in MountPaths :
        proc[p].op = "unmount" /\ "Upload" \in Range(proc[p].calls)
            => OverlayMounted(proc[p].pre, p)

\* C22: the overlay never outlives its dependencies: while the overlay is
\* mounted on the mount path, the input directory exists, the mount
\* directory of the backing store exists and the backing store is
\* loop-mounted on it.
C22_OverlayHasItsDependencies ==
    \A p \in MountPaths :
        OverlayMounted(World(fs, mtab), p)
            => /\ fs[getPath(p, RelPathInput)].kind = "dir"
               /\ fs[getPath(p, RelPathFSInFileMount)].kind = "dir"
               /\ IsMounted(World(fs, mtab), getPath(p, RelPathFSInFileMount))
               /\ Top(World(fs, mtab), getPath(p, RelPathFSInFileMount)).type = "loop"

\* C24: unmountFSInFile attempts both of its steps: when step 4 of Unmount
\* returned an error, the last call it made is the os.RemoveAll of the
\* mount directory of the backing store, whether or not umount failed.
C24_BothStepsAttempted ==
    \A p \in MountPaths :
        /\ proc[p].op = "unmount"
        /\ proc[p].pc = "u5"
        /\ proc[p].steps[Len(proc[p].steps)].err # Nil
        => proc[p].calls[Len(proc[p].calls)] = "os.RemoveAll"

\* os.FileMode(0522), the octal literal of the source: 5*64 + 2*8 + 2
DirectoryPermissions == 338

\* the mode each directory the driver creates is created with, by the
\* base name of the directory
MkdirMode ==
    [n \in {RelPathInput, RelPathFSInFileMount, "upper", "work"} |-> DirectoryPermissions]

\* the permission bit b (a power of two) is set in mode
HasBit(mode, b) == (mode \div b) % 2 = 1

\* C28: every directory the driver has created has a mode in which the
\* owner bits 0400 (256), 0200 (128) and 0100 (64) are set and the
\* others-write bit 0002 (2) is clear.
C28_OwnerRwxNotWorldWritable ==
    \A p \in MountPaths : \A n \in {RelPathInput, RelPathFSInFileMount} :
        fs[getPath(p, n)].kind = "dir"
            => /\ HasBit(MkdirMode[n], 256)
               /\ HasBit(MkdirMode[n], 128)
               /\ HasBit(MkdirMode[n], 64)
               /\ ~HasBit(MkdirMode[n], 2)

\* C29: a failed Mount is all-or-nothing.  A Mount that started from a
\* clean context and returned an error, with at most one failure of the
\* environment in the run (the one that made a forward step fail; a
\* rejection of the options needs none), so that no rollback primitive was
\* made to fail, leaves the context clean again.
C29_FailedMountLeavesNothing ==
    \A p \in MountPaths :
        /\ MountFailed(p)
        /\ Clean(proc[p].pre, p)
        /\ nfault <= 1
        /\ proc[p].stdout = <<>> /\ ~proc[p].fatal
        => Clean(World(fs, mtab), p)

\* how many times the call c was made
Count(calls, c) == Cardinality(Positions(calls, c))

\* the reference the mount options opts configure for the input
InputRefOf(opts) ==
    IF opts.InputS3Key # "" THEN Ref(opts.InputS3Key, opts.InputS3Bucket) ELSE NilRef

DownloadFailed == <<"failed to download data from S3", "Download">>

\* C25: in a Mount whose options were written, provisionInput first makes
\* the input directory (os.MkdirAll is its first call, and after it
\* succeeded the directory exists); the reference it is given has the bucket
\* and the key of the options; without a reference it makes no other call
\* and succeeds when the directory was made; with a reference and no error
\* it called Download exactly once, and the data is in the input directory.
\* When Download failed, Mount returns an error, and if no rollback
\* returned an error the input directory and the sidecar file are gone.
\* Unmount never calls Download.
C25_ProvisionInput ==
    \A p \in MountPaths :
        LET pr == proc[p]
            input == getPath(p, RelPathInput)
        IN  /\ pr.op = "unmount" => Count(pr.calls, "Download") = 0
            /\ Count(pr.calls, "Download") <= 1
            /\ pr.op = "mount" /\ Len(pr.steps) >= 2 /\ pr.steps[1].err = Nil
               => /\ pr.steps[2].fn = "provisionInput"
                  /\ pr.calls[3] = "os.MkdirAll"
                  /\ pr.dsopts.Input = InputRefOf(pr.opts)
                  /\ pr.dsopts.Input = NilRef
                     => /\ Count(pr.calls, "Download") = 0
                        /\ Count(pr.calls, "NewS3") = 0
                        /\ pr.steps[2].err # Nil
                           => pr.steps[2].err[Len(pr.steps[2].err)] = "os.MkdirAll"
                  /\ pr.dsopts.Input # NilRef /\ pr.steps[2].err = Nil
                     => Count(pr.calls, "Download") = 1
                  /\ pr.steps[2].err = Nil /\ pr.pc = "m3"
                     => /\ fs[input].kind = "dir"
                        /\ pr.dsopts.Input # NilRef => "data" \in VisibleKids(World(fs, mtab), input)
                  /\ pr.steps[2].err = DownloadFailed
                     => /\ Count(pr.calls, "Download") = 1
                        /\ pr.pc = "done"
                           => /\ pr.ret # RetNil
                              /\ (\A i \in 3..Len(pr.steps) : pr.steps[i].err = Nil)
                                 => /\ fs[input] = Absent
                                    /\ fs[getPath(p, RelPathOptions)] = Absent

\* a Mount with an input reference whose Download failed has returned, and
\* its rollback removed the input directory and the sidecar file
C25_Witness ==
    \E p \in MountPaths :
        /\ MountFailed(p)
        /\ Len(proc[p].steps) = 4
        /\ proc[p].steps[2].err = DownloadFailed
        /\ proc[p].dsopts.Input = Ref("k", "b")
        /\ \A i \in 3..4 : proc[p].steps[i].err = Nil
        /\ Count(proc[p].calls, "Download") = 1
        /\ fs[getPath(p, RelPathInput)] = Absent
        /\ fs[getPath(p, RelPathOptions)] = Absent

\* the reference the mount options opts configure for the output
OutputRefOf(opts) ==
    IF opts.OutputS3Key # "" THEN Ref(opts.OutputS3Key, opts.OutputS3Bucket) ELSE NilRef

S3SetupFailed == <<"failed to set up S3 transfer", "NewS3">>

\* C26: Unmount uses the options Mount persisted.  The output reference a
\* Mount hands on has the key and the bucket of its options, and none when
\* the key is empty.  An Unmount that follows a successful Mount and read
\* the sidecar file has the dataset options of that Mount; once its
\* handleOutput step returned, it called Upload iff these hold an output
\* reference and the S3 transfer could be set up, and without an output
\* reference the step made no call and returned nil.  Upload is called at
\* most once in an Unmount and never in a Mount.
C26_UnmountUsesPersistedOptions ==
    \A p \in MountPaths :
        LET pr == proc[p]
        IN  /\ pr.op = "mount" => Count(pr.calls, "Upload") = 0
            /\ Count(pr.calls, "Upload") <= 1
            /\ pr.op = "mount" /\ Len(pr.steps) >= 1 /\ pr.steps[1].err = Nil
               => pr.dsopts.Output = OutputRefOf(pr.opts)
            /\ /\ pr.op = "unmount" /\ prev[p].op = "mount" /\ prev[p].ok
               /\ Len(pr.steps) >= 1 /\ pr.steps[1].err = Nil
               => pr.dsopts = prev[p].dsopts
            /\ pr.op = "unmount" /\ Len(pr.steps) >= 2
               => /\ pr.steps[1].err = Nil
                  /\ pr.steps[2].fn = "handleOutput"
                  /\ Count(pr.calls, "Upload") = 1
                     <=> pr.dsopts.Output # NilRef /\ pr.steps[2].err # S3SetupFailed
                  /\ pr.dsopts.Output = NilRef
                     => pr.steps[2].err = Nil /\ Count(pr.calls, "NewS3") = 0

\* an Unmount after a successful Mount with an output reference has called
\* Upload once and returned nil
C26_Witness ==
    \E p \in MountPaths :
        /\ UnmountDone(p) /\ proc[p].ret = RetNil
        /\ prev[p].op = "mount" /\ prev[p].ok
        /\ prev[p].dsopts.Output = Ref("k", "b")
        /\ proc[p].dsopts = prev[p].dsopts
        /\ Count(proc[p].calls, "Upload") = 1

\* the world w without the directory of the mount path p
WithoutTarget(w, p) == SetNode(w, p, Absent)

\* C27: the driver never creates or removes the target path.  While a Mount
\* or an Unmount runs and after it returned, the node of the mount path is
\* the one the invocation found, and only overlay mounts are on it.  The
\* three functions that are given the mount path (mountOverlayFS,
\* unmountOverlayFS, handleOutput) do not create it either: run where the
\* target path does not exist, whatever fails, they leave it absent.
C27_TargetPathKept ==
    \A p \in MountPaths :
        LET pr == proc[p]
            w0 == WithoutTarget(World(fs, mtab), p)
            mnt == getPath(p, RelPathFSInFileMount)
        IN  /\ pr.pc # "idle" => fs[p] = pr.pre.fs[p] /\ fs[p].kind = "dir"
            /\ \A i \in 1..Len(mtab[p]) : mtab[p][i].type = "overlay"
            /\ pr.pc = "m5"
               => \A F \in SUBSET {"MkdirAll.upper", "MkdirAll.work", "mount"} :
                     mountOverlayFS(w0, mnt, getPath(p, RelPathInput), p, F).w.fs[p] = Absent
            /\ pr.pc = "u3"
               => \A F \in SUBSET {"umount", "RemoveAll.upper", "RemoveAll.work"} :
                     unmountOverlayFS(w0, mnt, p, F).w.fs[p] = Absent
            /\ pr.pc = "u2"
               => \A F \in SUBSET {"NewS3", "Upload"} :
                     handleOutput(w0, p, pr.dsopts.Output, F).w.fs[p] = Absent

\* an Unmount that found the overlay mounted on the target path and took
\* it off has returned, and the target path is the directory it was
C27_Witness ==
    \E p \in MountPaths :
        /\ UnmountDone(p)
        /\ OverlayMounted(proc[p].pre, p)
        /\ mtab[p] = <<>>
        /\ fs[p] = proc[p].pre.fs[p] /\ fs[p].kind = "dir"

\* the two errors writeDatasetOpts rejects mount options with
Rejections ==
    {New("input key configured without a bucket"),
     New("output key configured without a bucket")}

\* C30: a reference is configured iff its key is non-empty.  Mount rejects
\* its options iff a side has a key and no bucket, so a bucket without a key
\* passes.  Once the options are written, each side of the dataset options,
\* and of the sidecar file as it decodes, is the reference of the key and
\* bucket when the key is non-empty and nil (null in the file) when it is
\* empty, whatever the bucket.  A Mount whose input key is empty calls no
\* Download, and an Unmount after a successful Mount that persisted no
\* output reference calls no Upload.
C30_ConfiguredIffKey ==
    \A p \in MountPaths :
        LET pr == proc[p]
            json == fs[getPath(p, RelPathOptions)]
        IN  /\ pr.op = "mount" /\ Len(pr.steps) >= 1
               => /\ pr.steps[1].err \in Rejections <=> KeyWithoutBucket(pr.opts)
                  /\ pr.opts.InputS3Key = "" => Count(pr.calls, "Download") = 0
            /\ pr.op = "mount" /\ pr.pc = "m2"
               => /\ pr.dsopts.Input = InputRefOf(pr.opts)
                  /\ pr.dsopts.Output = OutputRefOf(pr.opts)
                  /\ json.kind = "file"
                  /\ DecodeDsopts(json.data) = [ok |-> TRUE, dsopts |-> pr.dsopts]
                  /\ pr.opts.InputS3Key = "" => json.data[3] = "null"
                  /\ pr.opts.OutputS3Key = "" => json.data[Len(json.data) - 1] = "null"
            /\ /\ pr.op = "unmount" /\ prev[p].op = "mount" /\ prev[p].ok
               /\ prev[p].dsopts.Output = NilRef
               => Count(pr.calls, "Upload") = 0

\* a Mount whose options name both buckets and no key has succeeded: both
\* sides of the sidecar file are null and nothing was downloaded
C30_Witness ==
    \E p \in MountPaths :
        /\ MountDone(p) /\ proc[p].ret = RetNil
        /\ proc[p].opts = [InputS3Key |-> "", InputS3Bucket |-> "b",
                           OutputS3Key |-> "", OutputS3Bucket |-> "b"]
        /\ proc[p].dsopts = EmptyDsopts
        /\ fs[getPath(p, RelPathOptions)].data = <<"{", "Input", "null", "Output", "null", "}">>
        /\ Count(proc[p].calls, "Download") = 0

--------------------------------------------------------------------------
(* The driver process killed between two steps.  The kubelet runs the     *)
(* driver as a child process and kills it on a timeout: the process stops *)
(* where it is, no deferred function runs and nothing is written to       *)
(* stdout.  The kubelet then invokes the same operation on the same mount *)
(* path again, and again after each failure.  No call fails for a reason  *)
(* of the environment in these behaviours (nfault is at its bound), and   *)
(* ninv tells the two starts apart: 0 for a clean context, on which Mount *)
(* is invoked, 1 for a mounted one, on which Unmount is invoked.          *)

ValidOptions == {o \in MountOptions : ValidateOpts(o).err = Nil}

InitKill ==
    /\ \/ /\ fs = [n \in Paths |-> IF n \in MountPaths THEN Dir({}) ELSE Absent]
          /\ mtab = [n \in Paths |-> <<>>]
          /\ prev = [p \in AllMountPaths |-> NoPrev]
          /\ ninv = 0
       \/ /\ \E opts \in ValidOptions :
                LET w0 == World([n \in Paths |-> IF n \in MountPaths THEN Dir({}) ELSE Absent],
                                [n \in Paths |-> <<>>])
                    w == MountedWorld(w0, CHOOSE p \in MountPaths : TRUE, opts)
                IN  /\ fs = w.fs
                    /\ mtab = w.mtab
                    /\ prev = [p \in AllMountPaths |->
                                  IF p \in MountPaths
                                  THEN [op |-> "mount", dsopts |-> ValidateOpts(opts).dsopts,
                                        ok |-> TRUE, faulty |-> FALSE, clean |-> TRUE]
                                  ELSE NoPrev]
          /\ ninv = 1
    /\ proc = [p \in AllMountPaths |-> IdleProc]
    /\ nfault = MaxFaults
    /\ cli = IdleCli

\* the kubelet invokes Mount on the clean context, and again, with the
\* same options, after a Mount that was killed or returned a failure
KubeletMount(p) ==
    /\ proc[p].pc = "idle"
    /\ ninv = 0
    /\ prev[p].op = "none" \/ (prev[p].op = "mount" /\ ~prev[p].ok)
    /\ \E opts \in ValidOptions :
          /\ prev[p].op = "mount" => ValidateOpts(opts).dsopts = prev[p].dsopts
          /\ proc' = [proc EXCEPT ![p] = [IdleProc EXCEPT !.pc = "m1", !.op = "mount",
                                           !.opts = opts, !.pre = World(fs, mtab)]]
    /\ UNCHANGED <<fs, mtab, prev, ninv, nfault, cli>>

\* the kubelet invokes Unmount on the mounted context, and again after an
\* Unmount that was killed or returned a failure
KubeletUnmount(p) ==
    /\ ninv = 1
    /\ ReinvokeUnmount(p)

\* between two forward steps of Mount, between two steps of Unmount
KillPoints == {"m2", "m3", "m4", "m5", "u2", "u3", "u4", "u5", "u6", "u7"}

\* the process of the first invocation is killed: it stops between two
\* steps and leaves the world as it is at that moment
Kill(p) ==
    /\ proc[p].pc \in KillPoints
    /\ prev[p].op = "none" \/ (proc[p].op = "unmount" /\ prev[p].op = "mount")
    /\ prev' = [prev EXCEPT ![p] =
           [op |-> proc[p].op, dsopts |-> proc[p].dsopts, ok |-> FALSE,
            faulty |-> FALSE, clean |-> Clean(proc[p].pre, p)]]
    /\ proc' = [proc EXCEPT ![p] = IdleProc]
    /\ UNCHANGED <<fs, mtab, ninv, nfault, cli>>

NextKill ==
    \E p \in MountPaths :
        \/ KubeletMount(p)
        \/ KubeletUnmount(p)
        \/ Kill(p)
        \/ MountWriteOpts(p)
        \/ MountProvisionInput(p)
        \/ MountCreateFS(p)
        \/ MountMountFS(p)
        \/ MountOverlay(p)
        \/ MountRunDeferred(p)
        \/ MountReturn(p)
        \/ UnmountReadOpts(p)
        \/ UnmountHandleOutput(p)
        \/ UnmountOverlay(p)
        \/ UnmountFS(p)
        \/ UnmountDestroyFS(p)
        \/ UnmountDestroyInput(p)
        \/ UnmountDeleteOpts(p)
        \/ MainEmit(p)
        \/ Exit(p)

\* every process that is not killed runs to its end and the kubelet does
\* not give up
SpecKill == InitKill /\ [][NextKill]_vars /\ WF_vars(NextKill)

\* the operation returned nil and reconciled the context: everything is
\* mounted after Mount, no derived resource is left after Unmount
Reconciled(p) ==
    /\ proc[p].pc = "done"
    /\ proc[p].ret = RetNil
    /\ proc[p].op = "mount" => AllMounted(World(fs, mtab), p)
    /\ proc[p].op = "unmount" => Clean(World(fs, mtab), p)

\* C23: when the process is killed between two steps of Mount or of
\* Unmount and the kubelet invokes the same operation on the same mount
\* path again and again, with no call failing for a reason of the
\* environment, an invocation eventually returns nil with the context
\* fully mounted (Mount) or with no derived resource left (Unmount).
C23_KilledOperationReconciles == <>(\E p \in MountPaths : Reconciled(p))

\* the same, for Mount alone: the behaviours that start from a clean context
KilledMountReconciles == <>(ninv = 1 \/ \E p \in MountPaths : Reconciled(p))

==========================================================================
